---- MODULE Spec2Model ----
(***************************************************************************)
(* The form engine of src/src/composables/useForm.ts (useForm): the        *)
(* reactive state values/errors/touched/dirty/submitting, the computed     *)
(* valid, the deep watcher on values, and the asynchronous operations      *)
(* validateField, validate and submit, cut at their await points.  One     *)
(* JavaScript thread: an action is one synchronous run between two         *)
(* suspension points.                                                      *)
(***************************************************************************)
EXTENDS Bags, FiniteSets, Integers, Sequences, TLC

\* ------------------------------------------------------------------------
\* Bounds
\* ------------------------------------------------------------------------
\* number of calls made on the form handle in one behaviour
MaxOps == 2
\* validateField calls in flight at once
MaxVf == 4
\* validate / submit calls in flight at once
MaxCalls == 2
\* the numeric arguments of the rule factories are -MaxArg..MaxArg
MaxArg == 2

\* ------------------------------------------------------------------------
\* Values, messages, rules
\* ------------------------------------------------------------------------
Undefined == "undefined"
Null == "null"
EmptyStr == "''"
Zero == "0"
False == "false"
Ab == "'ab'"

\* the field values the caller writes
Vals == {Undefined, Null, EmptyStr, Zero, False, Ab}

Names == {"a", "b"}

\* rule.message left out
NoMsg == "<no message>"
\* the result `true` of validateRule
True == "<true>"
\* an exception leaving validateRule (only a validateRule without its catch produces it)
Throw == "<throw>"

DefaultRequiredMsg == "default: required"
DefaultFailedMsg == "default: validation failed"

\* what a caller-supplied validator does when invoked: return (or resolve to)
\* true, a non-string other than true, a string; throw; return a rejected promise
CustomOutcomes == {"true", "false", "string", "throw", "reject"}
ValidatorString == "validator message"

\* the messages setFieldError is called with
ErrorArgs == {"server error", ""}

\* what onSubmit throws or rejects with
SubmitErrors == {"E1", "E2"}

Required(msg) == [required |-> TRUE, message |-> msg, validator |-> "none"]
Custom(msg) == [required |-> FALSE, message |-> msg, validator |-> "custom"]

\* rules[name] is a FormRule or a FormRule[]
One(rule) == [array |-> FALSE, items |-> <<rule>>]
Many(items) == [array |-> TRUE, items |-> items]

Rules1 == [n \in {"a", "b"} |->
             IF n = "a" THEN Many(<<Required("a is required"), Custom("a is invalid")>>)
                        ELSE One(Required(NoMsg))]
Rules2 == [n \in {"a"} |-> One(Custom(NoMsg))]
Rules3 == [n \in {"b"} |-> Many(<<Required("b is required")>>)]
NoRules == [n \in {} |-> One(Required(NoMsg))]

\* the rules argument of useForm: absent, or a mapping
RuleArgs == {[given |-> FALSE, map |-> NoRules],
             [given |-> TRUE, map |-> Rules1],
             [given |-> TRUE, map |-> Rules2],
             [given |-> TRUE, map |-> Rules3]}

\* the initialValues argument of useForm; b is a field the form only gets later
initialValues == [n \in {"a"} |-> EmptyStr]

\* ------------------------------------------------------------------------
\* Objects as finite maps
\* ------------------------------------------------------------------------
Empty == [n \in {} |-> ""]
Get(obj, k) == IF k \in DOMAIN obj THEN obj[k] ELSE Undefined
Put(obj, k, v) == [n \in DOMAIN obj \cup {k} |-> IF n = k THEN v ELSE obj[n]]
Delete(obj, k) == [n \in DOMAIN obj \ {k} |-> obj[n]]
\* Object.assign(target, source)
ObjectAssign(target, source) ==
  [n \in DOMAIN target \cup DOMAIN source |-> IF n \in DOMAIN source THEN source[n] ELSE target[n]]
\* a || b on an optional string
Or(a, b) == IF a \in {NoMsg, ""} THEN b ELSE a
\* a test that takes every field for touched
IsSet_always(flags, k) == TRUE

\* the truthiness of flags[k]
IsSet(flags, k) == k \in DOMAIN flags /\ flags[k]

VARIABLES
  rules,        \* the rules argument, fixed at construction
  values, errors, touched, dirty, submitting,
  validCache, validDirty,   \* the computed valid: the value of its last evaluation (none
                            \* yet: FALSE, never read), and whether it must be evaluated again
  watchQueued,  \* the watcher job on values is queued
  vfs,          \* bag of validateField calls suspended at `await validateRule`
  calls,        \* validate and submit calls in flight, by id
  nOps,         \* calls made so far
  last,         \* the latest call or completion
  hist          \* per name: the result of the validateField that completed last, and
                \* whether errors[name] was written by setFieldError, clearFieldError or
                \* reset since; and whether reset is the latest call made

\* ThemeProvider (src/src/theme/ThemeProvider.tsx)
VARIABLES
  props,        \* the props theme and colorScheme of the component
  themeState,   \* the reactive theme
  themeContext, \* the provided context object: its field isDark (theme is themeState)
  isDark,       \* the computed isDark: the value of its last evaluation, and whether the
                \* colorScheme it read has been written since
  window        \* whether there is a window, what matchMedia('(prefers-color-scheme:
                \* dark)') matches, and whether handleChange listens to its changes

themeVars == <<props, themeState, themeContext, isDark, window>>

vars == <<rules, values, errors, touched, dirty, submitting, validCache, validDirty,
          watchQueued, vfs, calls, nOps, last, hist, themeVars>>

NoEv == [op |-> "useForm", name |-> "", value |-> "", ret |-> "", idx |-> 0, vout |-> "",
         seen |-> <<>>, invoked |-> <<>>, call |-> 0, results |-> Empty, thrown |-> "",
         outcome |-> "", arg |-> Empty, fnCalls |-> 0]

\* ------------------------------------------------------------------------
\* computed valid (lines 48-50) and the reactivity of errors (line 42)
\* ------------------------------------------------------------------------
\* the getter of valid
validGetter == Cardinality(DOMAIN errors) = 0

\* errors as a plain object: no write to it triggers anything
ErrorsTrigger_plainObject(old, new) == FALSE

\* errors is reactive: adding or deleting a key triggers the effects that iterate its keys
ErrorsTrigger(old, new) == DOMAIN old # DOMAIN new

\* valid.value as a reader sees it
valid == IF validDirty THEN validGetter ELSE validCache

SetErrors(new) ==
  /\ errors' = new
  /\ validDirty' = (validDirty \/ ErrorsTrigger(errors, new))
  /\ validCache' = validCache

\* values is reactive: a write that changes it queues the watcher job
SetValues(new) ==
  /\ values' = new
  /\ watchQueued' = (watchQueued \/ new # values)

\* ------------------------------------------------------------------------
\* validateRule (lines 83-104)
\* ------------------------------------------------------------------------
IsAbsent(value) == value \in {Undefined, Null, EmptyStr}

\* the validator of the rule is called for this value
InvokesValidator(value, rule) ==
  /\ ~(rule.required /\ IsAbsent(value))
  /\ rule.validator # "none"

\* what the validator of the rule can do on this value
ValidatorOutcomes(value, rule) ==
  IF InvokesValidator(value, rule) THEN CustomOutcomes ELSE {"not invoked"}

\* validateRule without the try/catch around the validator
validateRule_noCatch(value, rule, vout) ==
  IF rule.required /\ IsAbsent(value)
    THEN Or(rule.message, DefaultRequiredMsg)
  ELSE IF rule.validator # "none"
    THEN IF vout \in {"throw", "reject"} THEN Throw
         ELSE IF vout = "true" THEN True
         ELSE IF vout = "string" THEN ValidatorString
         ELSE Or(rule.message, DefaultFailedMsg)
  ELSE True

\* validateRule with the required test written `rule.required && !value`
validateRule_falsy(value, rule, vout) ==
  IF rule.required /\ value \in {Undefined, Null, EmptyStr, Zero, False}
    THEN Or(rule.message, DefaultRequiredMsg)
  ELSE IF rule.validator # "none"
    THEN IF vout \in {"throw", "reject"} THEN Or(rule.message, DefaultFailedMsg)
         ELSE IF vout = "true" THEN True
         ELSE IF vout = "string" THEN ValidatorString
         ELSE Or(rule.message, DefaultFailedMsg)
  ELSE True

validateRule(value, rule, vout) ==
  IF rule.required /\ IsAbsent(value)
    THEN Or(rule.message, DefaultRequiredMsg)
  ELSE IF rule.validator # "none"
    THEN IF vout \in {"throw", "reject"} THEN Or(rule.message, DefaultFailedMsg)
         ELSE IF vout = "true" THEN True
         ELSE IF vout = "string" THEN ValidatorString
         ELSE Or(rule.message, DefaultFailedMsg)
  ELSE True

\* ------------------------------------------------------------------------
\* validateField (lines 62-80)
\* ------------------------------------------------------------------------
\* validateField without the early return for a field that has no rule
HasRule_always(name) == TRUE

\* rule = rules?.[name], and the test of `if (!rule)`
HasRule(name) == rules.given /\ name \in DOMAIN rules.map
\* Array.isArray(rule) ? rule : [rule]
fieldRules(name) == IF name \in DOMAIN rules.map THEN rules.map[name].items ELSE <<>>

\* a call suspended at `await validateRule(value, fieldRules[idx])`: the value read at the
\* call, the results of the rules before idx, the rules whose validator has been called
NewVf(name, value, owner) ==
  [name |-> name, value |-> value, idx |-> 1, owner |-> owner, seen |-> <<>>,
   invoked |-> IF InvokesValidator(value, fieldRules(name)[1]) THEN <<1>> ELSE <<>>]

\* validateField up to its first await: what it starts, the errors it leaves, and
\* what it has returned by then
validateFieldCall(name, value, owner) ==
  IF ~HasRule(name)
    THEN [vfs |-> EmptyBag, errors |-> errors, ret |-> "true"]
  ELSE IF fieldRules(name) = <<>>
    THEN [vfs |-> EmptyBag, errors |-> Delete(errors, name), ret |-> "true"]
  ELSE [vfs |-> SetToBag({NewVf(name, value, owner)}), errors |-> errors, ret |-> "pending"]

\* the loop without `return false`: a failed rule is recorded and the loop goes on
LoopStep_noReturn(result, idx, n) ==
  IF result = Throw THEN "throw"
  ELSE IF idx < n THEN "next"
  ELSE IF result # True THEN "fail"
  ELSE "pass"

\* the loop body after `await validateRule`: leave with false, go on, or leave with true
LoopStep(result, idx, n) ==
  IF result = Throw THEN "throw"
  ELSE IF result # True THEN "fail"
  ELSE IF idx < n THEN "next"
  ELSE "pass"

\* validateField returning false without recording the message
errorsOnFail_skip(name, result) == errors

\* errors[name] = result
errorsOnFail(name, result) == Put(errors, name, result)
\* validateField returning true without `delete errors[name]`
errorsOnPass_keep(name) == errors

\* delete errors[name]
errorsOnPass(name) == Delete(errors, name)

\* a validateField owned by a validate call hands its result to that call's Promise.all
Deliver(vf, ret) ==
  IF vf.owner \in DOMAIN calls /\ calls[vf.owner].pc = "all"
    THEN [calls EXCEPT ![vf.owner].results = Put(@, vf.name, ret)]
    ELSE calls

\* a call other than reset is made
HistCall == [hist EXCEPT !.afterReset = FALSE]
\* a validateField(name) has returned ret
HistReturn(h, name, ret) == [h EXCEPT !.res[name] = ret, !.direct[name] = FALSE]
\* errors[name] is written without a validation
HistDirect(name) == [hist EXCEPT !.direct[name] = TRUE, !.afterReset = FALSE]

\* no ThemeProvider is set up
NoThemeProvider ==
  /\ props = [theme |-> Empty, colorScheme |-> "light"]
  /\ themeState = Empty
  /\ themeContext = [isDark |-> FALSE]
  /\ isDark = [value |-> FALSE, dirty |-> FALSE]
  /\ window = [defined |-> FALSE, matches |-> FALSE, listening |-> FALSE]

Init ==
  /\ NoThemeProvider
  /\ rules \in RuleArgs
  /\ values = initialValues
  /\ errors = Empty
  /\ touched = Empty
  /\ dirty = Empty
  /\ submitting = FALSE
  /\ validCache = FALSE
  /\ validDirty = TRUE
  /\ watchQueued = FALSE
  /\ vfs = EmptyBag
  /\ calls = Empty
  /\ nOps = 0
  /\ last = NoEv
  /\ hist = [res |-> [n \in Names |-> "none"], direct |-> [n \in Names |-> FALSE],
             afterReset |-> FALSE]

validateField(name) ==
  LET c == validateFieldCall(name, Get(values, name), 0) IN
  /\ nOps < MaxOps
  /\ nOps' = nOps + 1
  /\ BagCardinality(vfs) + BagCardinality(c.vfs) <= MaxVf
  /\ vfs' = vfs (+) c.vfs
  /\ SetErrors(c.errors)
  /\ last' = [NoEv EXCEPT !.op = IF c.ret = "pending" THEN "validateField"
                                 ELSE "validateField returns",
                          !.name = name, !.value = Get(values, name),
                          !.ret = IF c.ret = "pending" THEN "" ELSE c.ret]
  /\ hist' = IF c.ret = "pending" THEN HistCall ELSE HistReturn(HistCall, name, c.ret)
  /\ UNCHANGED <<themeVars, rules, values, touched, dirty, submitting, watchQueued, calls>>

\* a validateField that reads values[name] again for each rule
ruleValue_live(vf) == Get(values, vf.name)

\* const value = values[name]: read once, when validateField is called
ruleValue(vf) == vf.value

\* the continuation after `await validateRule`; vout is what the validator did
validateFieldResume(vf, vout) ==
  LET rs == fieldRules(vf.name)
      result == validateRule(ruleValue(vf), rs[vf.idx], vout)
      step == LoopStep(result, vf.idx, Len(rs))
      rest == vfs (-) SetToBag({vf})
      ev == [NoEv EXCEPT !.name = vf.name, !.value = vf.value, !.idx = vf.idx, !.vout = vout,
                         !.seen = Append(vf.seen, result), !.invoked = vf.invoked,
                         !.call = vf.owner]
  IN
  /\ BagIn(vf, vfs)
  /\ vout \in ValidatorOutcomes(ruleValue(vf), rs[vf.idx])
  /\ CASE step = "fail" ->
            /\ SetErrors(errorsOnFail(vf.name, result))
            /\ vfs' = rest
            /\ calls' = Deliver(vf, "false")
            /\ last' = [ev EXCEPT !.op = "validateField returns", !.ret = "false"]
            /\ hist' = HistReturn(hist, vf.name, "false")
       [] step = "next" ->
            LET nxt == [vf EXCEPT !.idx = vf.idx + 1,
                                  !.seen = Append(@, result),
                                  !.invoked = IF InvokesValidator(ruleValue(vf), rs[vf.idx + 1])
                                                THEN Append(@, vf.idx + 1) ELSE @]
            IN /\ vfs' = rest (+) SetToBag({nxt})
               /\ last' = [ev EXCEPT !.op = "validateField next rule", !.invoked = nxt.invoked]
               /\ UNCHANGED <<errors, validCache, validDirty, calls, hist>>
       [] step = "pass" ->
            /\ SetErrors(errorsOnPass(vf.name))
            /\ vfs' = rest
            /\ calls' = Deliver(vf, "true")
            /\ last' = [ev EXCEPT !.op = "validateField returns", !.ret = "true"]
            /\ hist' = HistReturn(hist, vf.name, "true")
       [] step = "throw" ->
            /\ vfs' = rest
            /\ calls' = Deliver(vf, "rejected")
            /\ last' = [ev EXCEPT !.op = "validateField returns", !.ret = "rejected"]
            /\ hist' = HistReturn(hist, vf.name, "rejected")
            /\ UNCHANGED <<errors, validCache, validDirty>>
  /\ UNCHANGED <<themeVars, rules, values, touched, dirty, submitting, watchQueued, nOps>>

\* ------------------------------------------------------------------------
\* validate (lines 107-115)
\* ------------------------------------------------------------------------
\* Object.keys(rules).map(name => validateField(name)): one call per key, all started now
StartAll(owner) ==
  SetToBag({NewVf(name, Get(values, name), owner) : name \in DOMAIN rules.map})

\* Promise.race in place of Promise.all: settled with the first result
AllSettled_race(results) == DOMAIN results # {}

\* Promise.all settles: every promise fulfilled, or one rejected
AllSettled(results) ==
  \/ DOMAIN results = DOMAIN rules.map
  \/ \E n \in DOMAIN results : results[n] = "rejected"

\* results.every(result => result)
every(results) == \A n \in DOMAIN results : results[n] = "true"

\* what `await Promise.all(...)` followed by the return gives
validateResult(results) ==
  IF \E n \in DOMAIN results : results[n] = "rejected" THEN "rejected"
  ELSE IF every(results) THEN "true" ELSE "false"

FreeIds == (1..MaxCalls) \ DOMAIN calls
NewId == CHOOSE id \in FreeIds : \A other \in FreeIds : id <= other

NewCall(kind, pc, isValid) ==
  [kind |-> kind, pc |-> pc, results |-> Empty, isValid |-> isValid, fnCalls |-> 0]

validate ==
  /\ nOps < MaxOps
  /\ nOps' = nOps + 1
  /\ IF ~rules.given
       THEN /\ last' = [NoEv EXCEPT !.op = "validate returns", !.ret = "true"]
            /\ UNCHANGED <<vfs, calls>>
       ELSE /\ FreeIds # {}
            /\ BagCardinality(vfs) + Cardinality(DOMAIN rules.map) <= MaxVf
            /\ vfs' = vfs (+) StartAll(NewId)
            /\ calls' = Put(calls, NewId, NewCall("validate", "all", ""))
            /\ last' = [NoEv EXCEPT !.op = "validate", !.call = NewId]
  /\ hist' = HistCall
  /\ UNCHANGED <<themeVars, rules, values, errors, touched, dirty, submitting, validCache, validDirty,
                 watchQueued>>

\* the continuation of validate after `await Promise.all`
validateJoin(c) ==
  /\ c \in DOMAIN calls
  /\ calls[c].pc = "all"
  /\ AllSettled(calls[c].results)
  /\ LET ret == validateResult(calls[c].results) IN
       /\ calls' = IF calls[c].kind = "validate"
                     THEN Delete(calls, c)
                     ELSE [calls EXCEPT ![c].pc = "validated", ![c].isValid = ret]
       /\ last' = [NoEv EXCEPT !.op = "validate returns", !.call = c, !.ret = ret,
                               !.results = calls[c].results]
  /\ UNCHANGED <<themeVars, rules, values, errors, touched, dirty, submitting, validCache, validDirty,
                 watchQueued, vfs, nOps, hist>>

\* ------------------------------------------------------------------------
\* setFieldValue, setFieldError, clearFieldError, touchField, reset (lines 118-150)
\* ------------------------------------------------------------------------
setFieldValue(name, value) ==
  /\ nOps < MaxOps
  /\ nOps' = nOps + 1
  /\ SetValues(Put(values, name, value))
  /\ dirty' = Put(dirty, name, TRUE)
  /\ IF IsSet(touched, name)
       THEN LET c == validateFieldCall(name, value, 0) IN
            /\ BagCardinality(vfs) + BagCardinality(c.vfs) <= MaxVf
            /\ vfs' = vfs (+) c.vfs
            /\ SetErrors(c.errors)
            /\ hist' = IF c.ret = "pending" THEN HistCall ELSE HistReturn(HistCall, name, c.ret)
            /\ last' = [NoEv EXCEPT !.op = "setFieldValue", !.name = name, !.value = value,
                                    !.ret = c.ret]
       ELSE /\ hist' = HistCall
            /\ last' = [NoEv EXCEPT !.op = "setFieldValue", !.name = name, !.value = value]
            /\ UNCHANGED <<vfs, errors, validCache, validDirty>>
  /\ UNCHANGED <<themeVars, rules, touched, submitting, calls>>

setFieldError(name, error) ==
  /\ nOps < MaxOps
  /\ nOps' = nOps + 1
  /\ SetErrors(Put(errors, name, error))
  /\ last' = [NoEv EXCEPT !.op = "setFieldError", !.name = name, !.value = error]
  /\ hist' = HistDirect(name)
  /\ UNCHANGED <<themeVars, rules, values, touched, dirty, submitting, watchQueued, vfs, calls>>

clearFieldError(name) ==
  /\ nOps < MaxOps
  /\ nOps' = nOps + 1
  /\ SetErrors(Delete(errors, name))
  /\ last' = [NoEv EXCEPT !.op = "clearFieldError", !.name = name]
  /\ hist' = HistDirect(name)
  /\ UNCHANGED <<themeVars, rules, values, touched, dirty, submitting, watchQueued, vfs, calls>>

touchField(name) ==
  /\ nOps < MaxOps
  /\ nOps' = nOps + 1
  /\ touched' = Put(touched, name, TRUE)
  /\ last' = [NoEv EXCEPT !.op = "touchField", !.name = name]
  /\ hist' = HistCall
  /\ UNCHANGED <<themeVars, rules, values, errors, dirty, submitting, validCache, validDirty,
                 watchQueued, vfs, calls>>

\* onBlur of the binding of field name (lines 232-235): touchField(name), then
\* validateField(name); onChange (237-239) is setFieldValue
onBlur(name) ==
  LET c == validateFieldCall(name, Get(values, name), 0) IN
  /\ nOps < MaxOps
  /\ nOps' = nOps + 1
  /\ touched' = Put(touched, name, TRUE)
  /\ BagCardinality(vfs) + BagCardinality(c.vfs) <= MaxVf
  /\ vfs' = vfs (+) c.vfs
  /\ SetErrors(c.errors)
  /\ last' = [NoEv EXCEPT !.op = "onBlur", !.name = name, !.value = Get(values, name),
                          !.ret = c.ret]
  /\ hist' = IF c.ret = "pending" THEN HistCall ELSE HistReturn(HistCall, name, c.ret)
  /\ UNCHANGED <<themeVars, rules, values, dirty, submitting, watchQueued, calls>>

\* the values reset leaves
resetValues(vals) == ObjectAssign(vals, initialValues)

\* a reset that drops the validations still waiting for their validator
resetPending_cancel(pending) == EmptyBag

\* the pending validateField calls reset leaves: it has no handle on them
resetPending(pending) == pending

reset ==
  /\ nOps < MaxOps
  /\ nOps' = nOps + 1
  /\ SetValues(resetValues(values))
  /\ SetErrors(Empty)
  /\ touched' = Empty
  /\ dirty' = Empty
  /\ submitting' = FALSE
  /\ last' = [NoEv EXCEPT !.op = "reset"]
  /\ hist' = [hist EXCEPT !.direct = [n \in Names |-> TRUE], !.afterReset = TRUE]
  /\ vfs' = resetPending(vfs)
  /\ UNCHANGED <<themeVars, rules, calls>>

\* ------------------------------------------------------------------------
\* submit (lines 153-165)
\* ------------------------------------------------------------------------
\* submit with `submitting.value = false` at the end of the try block, not in a finally
submitFinally_noFinally(isValid, fn) ==
  [submitting |-> IF isValid = "rejected" \/ fn \in SubmitErrors THEN submitting ELSE FALSE,
   outcome |-> IF isValid = "rejected" THEN "rejected: validator"
               ELSE IF fn \in SubmitErrors THEN fn
               ELSE "resolved"]

\* submit with a catch block that drops the error
submitFinally_swallow(isValid, fn) ==
  [submitting |-> FALSE, outcome |-> "resolved"]

\* submit with `submitting.value = false` inside `if (isValid)`, after onSubmit
submitFinally_onlyWhenValid(isValid, fn) ==
  [submitting |-> IF isValid = "true" /\ fn \notin SubmitErrors THEN FALSE ELSE submitting,
   outcome |-> IF isValid = "rejected" THEN "rejected: validator"
               ELSE IF fn \in SubmitErrors THEN fn
               ELSE "resolved"]

\* submitting as a count of the submits in flight: cleared by the one that ends last
submitFinally_counted(isValid, fn) ==
  [submitting |-> \E c, d \in DOMAIN calls :
                    c # d /\ calls[c].kind = "submit" /\ calls[d].kind = "submit",
   outcome |-> IF isValid = "rejected" THEN "rejected: validator"
               ELSE IF fn \in SubmitErrors THEN fn
               ELSE "resolved"]

\* the finally block and what the promise of submit settles to; fn is what onSubmit did
\* ("not invoked", "ok", or the error it threw or rejected with)
submitFinally(isValid, fn) ==
  [submitting |-> FALSE,
   outcome |-> IF isValid = "rejected" THEN "rejected: validator"
               ELSE IF fn \in SubmitErrors THEN fn
               ELSE "resolved"]

\* a submit that returns at once while another one is in flight
submitAccepted_guarded == ~submitting

\* submit begins with `submitting.value = true`: it does not look at submitting
submitAccepted == TRUE

submit ==
  /\ nOps < MaxOps
  /\ nOps' = nOps + 1
  /\ IF submitAccepted
       THEN /\ FreeIds # {}
            /\ submitting' = TRUE
            /\ IF ~rules.given
                 THEN /\ calls' = Put(calls, NewId, NewCall("submit", "validated", "true"))
                      /\ UNCHANGED vfs
                 ELSE /\ BagCardinality(vfs) + Cardinality(DOMAIN rules.map) <= MaxVf
                      /\ vfs' = vfs (+) StartAll(NewId)
                      /\ calls' = Put(calls, NewId, NewCall("submit", "all", ""))
            /\ last' = [NoEv EXCEPT !.op = "submit", !.call = NewId]
       ELSE /\ last' = [NoEv EXCEPT !.op = "submit", !.ret = "ignored"]
            /\ UNCHANGED <<submitting, calls, vfs>>
  /\ hist' = HistCall
  /\ UNCHANGED <<themeVars, rules, values, errors, touched, dirty, validCache, validDirty, watchQueued>>

\* the run of submit that ends in the finally block; invokedNow: onSubmit was called in
\* this run (and threw at once)
submitEnd(c, fn, invokedNow) ==
  LET f == submitFinally(calls[c].isValid, fn) IN
  /\ submitting' = f.submitting
  /\ calls' = Delete(calls, c)
  /\ last' = [NoEv EXCEPT !.op = "submit returns", !.call = c, !.ret = calls[c].isValid,
                          !.thrown = fn, !.outcome = f.outcome,
                          !.arg = IF invokedNow THEN values ELSE Empty,
                          !.fnCalls = calls[c].fnCalls + IF invokedNow THEN 1 ELSE 0]

\* submit calling onSubmit whatever validate returned
shouldSubmit_always(isValid) == TRUE

\* submit looking at the form's valid as well
shouldSubmit_andValid(isValid) == isValid = "true" /\ valid

\* if (isValid)
shouldSubmit(isValid) == isValid = "true"

\* the continuation after `await validate()`: onSubmit is called when isValid, and may
\* throw at once
submitResume(c, fn) ==
  /\ c \in DOMAIN calls
  /\ calls[c].pc = "validated"
  /\ IF shouldSubmit(calls[c].isValid)
       THEN /\ fn \in SubmitErrors \cup {"pending"}
            /\ IF fn = "pending"
                 THEN /\ calls' = [calls EXCEPT ![c].pc = "onSubmit", ![c].fnCalls = @ + 1]
                      /\ last' = [NoEv EXCEPT !.op = "onSubmit", !.call = c,
                                              !.ret = calls[c].isValid, !.arg = values,
                                              !.fnCalls = calls[c].fnCalls + 1]
                      /\ UNCHANGED submitting
                 ELSE submitEnd(c, fn, TRUE)
       ELSE /\ fn = "not invoked"
            /\ submitEnd(c, fn, FALSE)
  /\ UNCHANGED <<themeVars, rules, values, errors, touched, dirty, validCache, validDirty, watchQueued,
                 vfs, nOps, hist>>

\* the continuation after `await onSubmit(values)`
submitSettle(c, fn) ==
  /\ c \in DOMAIN calls
  /\ calls[c].pc = "onSubmit"
  /\ fn \in SubmitErrors \cup {"ok"}
  /\ submitEnd(c, fn, FALSE)
  /\ UNCHANGED <<themeVars, rules, values, errors, touched, dirty, validCache, validDirty, watchQueued,
                 vfs, nOps, hist>>

\* ------------------------------------------------------------------------
\* the watcher on values (lines 168-179) and a read of valid
\* ------------------------------------------------------------------------
watchCallback ==
  [n \in DOMAIN dirty \cup {k \in DOMAIN values : values[k] # Get(initialValues, k)} |-> TRUE]

watchFlush ==
  /\ watchQueued
  /\ watchQueued' = FALSE
  /\ dirty' = watchCallback
  /\ last' = [NoEv EXCEPT !.op = "watch"]
  /\ UNCHANGED <<themeVars, rules, values, errors, touched, submitting, validCache, validDirty, vfs,
                 calls, nOps, hist>>

readValid ==
  /\ validDirty
  /\ validCache' = validGetter
  /\ validDirty' = FALSE
  /\ last' = [NoEv EXCEPT !.op = "valid.value"]
  /\ UNCHANGED <<themeVars, rules, values, errors, touched, dirty, submitting, watchQueued, vfs, calls,
                 nOps, hist>>

\* ------------------------------------------------------------------------
\* useFormField(name, form): the derived status (lines 212-222)
\* ------------------------------------------------------------------------
\* a string read as a condition: undefined and '' are false
TruthyString(str) == str \notin {Undefined, ""}

\* status.value of the binding of field name
status(name) ==
  LET error == Get(errors, name)
      touched_ == IsSet(touched, name)
  IN IF TruthyString(error) THEN "error"
     ELSE IF touched_ /\ ~TruthyString(error) THEN "success"
     ELSE "validating"

\* ------------------------------------------------------------------------
\* The built-in rule factories `validators` (lines 256-318), on JavaScript values
\* ------------------------------------------------------------------------
\* a value handed to a validator: its type, its characters (string), its number
\* (number; boolean as 0 or 1)
JsUndefined == [t |-> "undefined", s |-> <<>>, n |-> 0]
JsNull == [t |-> "null", s |-> <<>>, n |-> 0]
JsString(chars) == [t |-> "string", s |-> chars, n |-> 0]
JsNumber(n) == [t |-> "number", s |-> <<>>, n |-> n]
JsBoolean(b) == [t |-> "boolean", s |-> <<>>, n |-> IF b THEN 1 ELSE 0]

\* the absent values: undefined, null and the empty string
AbsentValues == {JsUndefined, JsNull, JsString(<<>>)}

ValidatorValues ==
  AbsentValues \cup
  {JsString(<<" ">>), JsString(<<"a", "b">>), JsString(<<"1", "2">>),
   JsString(<<"a", "@", "b", ".", "c">>),
   JsNumber(0), JsNumber(5), JsNumber(-1), JsBoolean(FALSE), JsBoolean(TRUE)}

\* !value is false
Truthy(v) ==
  CASE v.t = "string" -> v.s # <<>>
    [] v.t \in {"number", "boolean"} -> v.n # 0
    [] OTHER -> FALSE

Digits == <<"0", "1", "2", "3", "4", "5", "6", "7", "8", "9">>
IsDigit(ch) == \E d \in 1..10 : Digits[d] = ch
DigitValue(ch) == (CHOOSE d \in 1..10 : Digits[d] = ch) - 1
IsSpace(ch) == ch \in {" ", "\t", "\n"}

RECURSIVE DigitsOf(_)
\* the decimal digits of a natural number
DigitsOf(n) == IF n < 10 THEN <<Digits[n + 1]>> ELSE DigitsOf(n \div 10) \o <<Digits[(n % 10) + 1]>>

\* String(value), as regex.test(value) converts its argument
ToStr(v) ==
  CASE v.t = "string" -> v.s
    [] v.t = "number" -> IF v.n < 0 THEN <<"-">> \o DigitsOf(0 - v.n) ELSE DigitsOf(v.n)
    [] v.t = "boolean" -> IF v.n = 1 THEN <<"t", "r", "u", "e">> ELSE <<"f", "a", "l", "s", "e">>
    [] v.t = "null" -> <<"n", "u", "l", "l">>
    [] OTHER -> <<"u", "n", "d", "e", "f", "i", "n", "e", "d">>

RECURSIVE Trim(_)
Trim(chars) ==
  IF chars = <<>> THEN chars
  ELSE IF IsSpace(Head(chars)) THEN Trim(Tail(chars))
  ELSE IF IsSpace(chars[Len(chars)]) THEN Trim(SubSeq(chars, 1, Len(chars) - 1))
  ELSE chars

RECURSIVE Decimal(_)
Decimal(chars) == IF chars = <<>> THEN 0 ELSE 10 * Decimal(SubSeq(chars, 1, Len(chars) - 1)) + DigitValue(chars[Len(chars)])

NaN == [nan |-> TRUE, n |-> 0]
Num(n) == [nan |-> FALSE, n |-> n]

\* Number(chars): blank is 0, a signed decimal its value, anything else NaN
StringToNumber(chars) ==
  LET t == Trim(chars)
      signed == t # <<>> /\ Head(t) \in {"-", "+"}
      body == IF signed THEN Tail(t) ELSE t
  IN IF t = <<>> THEN Num(0)
     ELSE IF body # <<>> /\ \A i \in 1..Len(body) : IsDigit(body[i])
            THEN Num(IF signed /\ Head(t) = "-" THEN 0 - Decimal(body) ELSE Decimal(body))
            ELSE NaN

\* Number(value), and the conversion the relational operators apply to an operand
\* compared with a number
ToNumber(v) ==
  CASE v.t = "undefined" -> NaN
    [] v.t = "null" -> Num(0)
    [] v.t = "string" -> StringToNumber(v.s)
    [] OTHER -> Num(v.n)

\* value >= min and value <= max: false when the operand converts to NaN
Ge(x, y) == ~x.nan /\ ~y.nan /\ x.n >= y.n
Le(x, y) == ~x.nan /\ ~y.nan /\ x.n <= y.n

\* value.length: only a string has one
LengthOf(v) == IF v.t = "string" THEN Num(Len(v.s)) ELSE NaN

\* [^\s@]+ matches the whole of chars
NoSpaceNoAt(chars) == chars # <<>> /\ \A i \in 1..Len(chars) : ~IsSpace(chars[i]) /\ chars[i] # "@"

\* /^[^\s@]+@[^\s@]+\.[^\s@]+$/.test(chars)
emailRegex(chars) ==
  \E i, j \in 1..Len(chars) :
    /\ i < j /\ chars[i] = "@" /\ chars[j] = "."
    /\ NoSpaceNoAt(SubSeq(chars, 1, i - 1))
    /\ NoSpaceNoAt(SubSeq(chars, i + 1, j - 1))
    /\ NoSpaceNoAt(SubSeq(chars, j + 1, Len(chars)))

\* the regular expressions pattern is given: /^\d+$/ and /a/
Regexes == {"^\\d+$", "a"}
RegexTest(regex, chars) ==
  IF regex = "a" THEN \E i \in 1..Len(chars) : chars[i] = "a"
  ELSE chars # <<>> /\ \A i \in 1..Len(chars) : IsDigit(chars[i])

\* the message argument of a factory: left out, a text, the empty string
MessageArgs == {NoMsg, "custom message", ""}
\* a parameter default: it replaces undefined only
DefaultParam(message, default) == IF message = NoMsg THEN default ELSE message
\* test || message
OrMessage(test, message) == IF test THEN True ELSE message

email(message, value) ==
  IF ~Truthy(value) THEN True
  ELSE OrMessage(emailRegex(ToStr(value)), DefaultParam(message, "default: email"))

minLength(min, message, value) ==
  IF ~Truthy(value) THEN True
  ELSE OrMessage(Ge(LengthOf(value), Num(min)), Or(message, "default: min length " \o ToString(min)))

maxLength(max, message, value) ==
  IF ~Truthy(value) THEN True
  ELSE OrMessage(Le(LengthOf(value), Num(max)), Or(message, "default: max length " \o ToString(max)))

pattern(regex, message, value) ==
  IF ~Truthy(value) THEN True
  ELSE OrMessage(RegexTest(regex, ToStr(value)), DefaultParam(message, "default: pattern"))

number(message, value) ==
  IF value = JsString(<<>>) \/ value = JsNull \/ value = JsUndefined THEN True
  ELSE OrMessage(~ToNumber(value).nan, DefaultParam(message, "default: number"))

min(min_, message, value) ==
  IF value = JsNull \/ value = JsUndefined THEN True
  ELSE OrMessage(Ge(ToNumber(value), Num(min_)), Or(message, "default: min " \o ToString(min_)))

max(max_, message, value) ==
  IF value = JsNull \/ value = JsUndefined THEN True
  ELSE OrMessage(Le(ToNumber(value), Num(max_)), Or(message, "default: max " \o ToString(max_)))

\* the rules the factories are asked for: factory, its argument, its message
BuiltinRules ==
  [factory : {"email", "number"}, arg : {0}, regex : {""}, message : MessageArgs]
  \cup [factory : {"minLength", "maxLength", "min", "max"}, arg : (0 - MaxArg)..MaxArg,
        regex : {""}, message : MessageArgs]
  \cup [factory : {"pattern"}, arg : {0}, regex : Regexes, message : MessageArgs]

\* rule.validator(value) of a rule made by a factory
builtinValidator(rule, value) ==
  CASE rule.factory = "email" -> email(rule.message, value)
    [] rule.factory = "minLength" -> minLength(rule.arg, rule.message, value)
    [] rule.factory = "maxLength" -> maxLength(rule.arg, rule.message, value)
    [] rule.factory = "pattern" -> pattern(rule.regex, rule.message, value)
    [] rule.factory = "number" -> number(rule.message, value)
    [] rule.factory = "min" -> min(rule.arg, rule.message, value)
    [] OTHER -> max(rule.arg, rule.message, value)

\* a rule made by a factory, and a value to give its validator
InitValidators ==
  /\ NoThemeProvider
  /\ rules \in BuiltinRules
  /\ values \in [{"a"} -> ValidatorValues]
  /\ errors = Empty
  /\ touched = Empty
  /\ dirty = Empty
  /\ submitting = FALSE
  /\ validCache = FALSE
  /\ validDirty = TRUE
  /\ watchQueued = FALSE
  /\ vfs = EmptyBag
  /\ calls = Empty
  /\ nOps = 0
  /\ last = NoEv
  /\ hist = [res |-> [n \in Names |-> "none"], direct |-> [n \in Names |-> FALSE],
             afterReset |-> FALSE]

\* rule.validator(values.a) is called, once
callValidator ==
  /\ nOps = 0
  /\ nOps' = 1
  /\ last' = [NoEv EXCEPT !.op = "validator", !.name = rules.factory,
                          !.ret = builtinValidator(rules, values["a"])]
  /\ UNCHANGED <<themeVars, rules, values, errors, touched, dirty, submitting, validCache, validDirty,
                 watchQueued, vfs, calls, hist>>

\* ------------------------------------------------------------------------
\* ThemeProvider: setup, setTheme, toggleColorScheme, handleChange
\* (src/src/theme/ThemeProvider.tsx, lines 56-142)
\* ------------------------------------------------------------------------
ColorSchemes == {"light", "dark", "auto"}
PrimaryColors == {"#1890ff", "#177ddc"}
ThemeKeys == {"colorScheme", "primaryColor"}

defaultTheme == [k \in ThemeKeys |-> IF k = "colorScheme" THEN "light" ELSE "#1890ff"]

\* a Partial<ThemeConfig>: some of the keys, each with a value of its type
PartialThemes ==
  UNION {{t \in [K -> ColorSchemes \cup PrimaryColors] :
            \A k \in K : t[k] \in IF k = "colorScheme" THEN ColorSchemes ELSE PrimaryColors}
         : K \in SUBSET ThemeKeys}

\* the getter of isDark, for a theme and a window
isDarkGetter(state, win) ==
  IF state["colorScheme"] = "auto" THEN win.matches ELSE state["colorScheme"] = "dark"

\* the getter reads window.matchMedia where there is no window
isDarkThrows(comp, state, win) == comp.dirty /\ state["colorScheme"] = "auto" /\ ~win.defined

\* isDark.value: evaluated again only after a write to the colorScheme it read
isDarkValue(comp, state, win) == IF comp.dirty THEN isDarkGetter(state, win) ELSE comp.value

\* a write of themeState: a colorScheme that changes invalidates isDark
Invalidate(comp, old, new) ==
  IF new["colorScheme"] # old["colorScheme"] THEN [comp EXCEPT !.dirty = TRUE] ELSE comp

\* a setup that registers handleChange whatever the colorScheme
registersHandler_always(win, state) == win.defined

\* typeof window !== 'undefined' && themeState.colorScheme === 'auto'
registersHandler(win, state) == win.defined /\ state["colorScheme"] = "auto"

\* setup has run (it throws for colorScheme 'auto' where there is no window); the form
\* handle is not used
InitTheme ==
  /\ props \in [theme : PartialThemes, colorScheme : ColorSchemes]
  /\ themeState = ObjectAssign(ObjectAssign(defaultTheme, props.theme),
                               [k \in {"colorScheme"} |-> props.colorScheme])
  /\ window \in [defined : BOOLEAN, matches : BOOLEAN, listening : BOOLEAN]
  /\ window.matches => window.defined
  /\ window.defined \/ props.colorScheme # "auto"
  /\ window.listening = registersHandler(window, themeState)
  /\ isDark = [value |-> isDarkGetter(themeState, window), dirty |-> FALSE]
  /\ themeContext = [isDark |-> isDark.value]
  /\ rules = [given |-> FALSE, map |-> NoRules]
  /\ values = initialValues
  /\ errors = Empty
  /\ touched = Empty
  /\ dirty = Empty
  /\ submitting = FALSE
  /\ validCache = FALSE
  /\ validDirty = TRUE
  /\ watchQueued = FALSE
  /\ vfs = EmptyBag
  /\ calls = Empty
  /\ nOps = 0
  /\ last = NoEv
  /\ hist = [res |-> [n \in Names |-> "none"], direct |-> [n \in Names |-> FALSE],
             afterReset |-> FALSE]

formVars == <<rules, values, errors, touched, dirty, submitting, validCache, validDirty,
              watchQueued, vfs, calls, nOps, hist>>

setTheme(newTheme) ==
  /\ themeState' = ObjectAssign(themeState, newTheme)
  /\ isDark' = Invalidate(isDark, themeState, themeState')
  /\ last' = [NoEv EXCEPT !.op = "setTheme"]
  /\ UNCHANGED <<props, themeContext, window, formVars>>

toggleColorScheme ==
  /\ IF isDarkThrows(isDark, themeState, window)
       THEN /\ last' = [NoEv EXCEPT !.op = "toggleColorScheme", !.thrown = "ReferenceError"]
            /\ UNCHANGED <<themeState, isDark>>
       ELSE LET v == isDarkValue(isDark, themeState, window) IN
            /\ themeState' = [themeState EXCEPT !["colorScheme"] = IF v THEN "light" ELSE "dark"]
            /\ isDark' = Invalidate([value |-> v, dirty |-> FALSE], themeState, themeState')
            /\ last' = [NoEv EXCEPT !.op = "toggleColorScheme"]
  /\ UNCHANGED <<props, themeContext, window, formVars>>

\* the system preference changes; handleChange runs when it is registered
mediaChange ==
  /\ window.defined
  /\ window' = [window EXCEPT !.matches = ~@]
  /\ IF window.listening
       THEN LET v == isDarkValue(isDark, themeState, window') IN
            /\ themeContext' = [themeContext EXCEPT !.isDark = v]
            /\ isDark' = [value |-> v, dirty |-> FALSE]
       ELSE UNCHANGED <<themeContext, isDark>>
  /\ last' = [NoEv EXCEPT !.op = "change"]
  /\ UNCHANGED <<props, themeState, formVars>>

\* the render function runs again after isDark was invalidated, and reads isDark.value
render ==
  /\ isDark.dirty
  /\ IF isDarkThrows(isDark, themeState, window)
       THEN /\ last' = [NoEv EXCEPT !.op = "render", !.thrown = "ReferenceError"]
            /\ UNCHANGED isDark
       ELSE /\ isDark' = [value |-> isDarkValue(isDark, themeState, window), dirty |-> FALSE]
            /\ last' = [NoEv EXCEPT !.op = "render"]
  /\ UNCHANGED <<props, themeState, themeContext, window, formVars>>

\* ------------------------------------------------------------------------
\* Properties
\* ------------------------------------------------------------------------
Keys(obj) == DOMAIN obj
\* the name has an entry in the rules given at construction
Ruled(name) == rules.given /\ name \in DOMAIN rules.map
\* the message a failing rule falls back to
Message(rule, default) == IF rule.message = NoMsg THEN default ELSE rule.message

\* C1: in every reachable state, valid (as a reader of valid.value gets it) is true
\* exactly when errors has no keys.
C1_ValidIffNoErrors == valid <=> (Keys(errors) = {})

\* a validation has just failed, after valid had been read as true
C1_Witness ==
  /\ last.op = "validateField returns" /\ last.ret = "false"
  /\ validDirty /\ validCache
  /\ ~valid

\* C2: a submit call sets submitting to true when it starts and to false when it
\* completes, whether validation failed, onSubmit resolved, or onSubmit threw or rejected.
C2_SubmitSetsAndClearsSubmitting ==
  /\ last.op = "submit" => submitting
  /\ last.op = "submit returns" =>
       /\ ~submitting
       /\ \/ last.ret = "false" /\ last.thrown = "not invoked"
          \/ last.ret = "true" /\ last.thrown = "ok"
          \/ last.ret = "true" /\ last.thrown \in SubmitErrors

\* a submit has completed because validation failed
C2_Witness ==
  /\ last.op = "submit returns" /\ last.ret = "false" /\ last.thrown = "not invoked"
  /\ ~submitting

\* C3: after reset, values is exactly the construction-time mapping and errors, touched
\* and dirty are empty.
C3_ResetRestoresSnapshot ==
  last.op = "reset" =>
    /\ values = initialValues
    /\ Keys(errors) = {} /\ Keys(touched) = {} /\ Keys(dirty) = {}

\* C4: when validation passes and onSubmit throws or rejects, submit rejects with that
\* same error, and submitting is false when it does.
C4_SubmitPropagatesError ==
  (last.op = "submit returns" /\ last.thrown \in SubmitErrors) =>
    /\ last.ret = "true"
    /\ last.outcome = last.thrown
    /\ ~submitting

\* onSubmit has rejected with E2 after it was started
C4_Witness ==
  /\ last.op = "submit returns" /\ last.thrown = "E2" /\ last.outcome = "E2"
  /\ rules.given

\* C5: a validator that throws or rejects makes no validateField, validate or submit
\* throw: validateField returns false and errors[name] is the rule's message, or the
\* default failure message when the rule has none.
C5_ValidatorExceptionIsFailure ==
  /\ last.ret # "rejected"
  /\ last.outcome # "rejected: validator"
  /\ (last.op = "validateField returns" /\ last.vout \in {"throw", "reject"}) =>
       /\ last.ret = "false"
       /\ last.name \in Keys(errors)
       /\ errors[last.name] = Message(rules.map[last.name].items[last.idx], DefaultFailedMsg)

\* a validator without a message of its own has thrown
C5_Witness ==
  /\ last.op = "validateField returns" /\ last.vout = "throw"
  /\ rules.map[last.name].items[last.idx].message = NoMsg
  /\ last.name \in Keys(errors) /\ errors[last.name] = DefaultFailedMsg

\* C6: validateField on a name without an entry in rules returns true, at once, and
\* leaves errors as it was.
C6_NoRuleNoEffect ==
  [][(/\ nOps' = nOps + 1
      /\ last'.op \in {"validateField", "validateField returns"}
      /\ ~Ruled(last'.name))
     => (/\ last'.op = "validateField returns"
         /\ last'.ret = "true"
         /\ errors' = errors)]_vars

\* validateField has returned true for a field without a rule that carries an error,
\* in a form that has rules
C6_Witness ==
  /\ last.op = "validateField returns" /\ last.ret = "true"
  /\ rules.given /\ ~Ruled(last.name)
  /\ last.name \in Keys(errors)

\* the only rule of the name is a required rule without a validator
RequiredOnly(name) ==
  /\ Ruled(name)
  /\ Len(rules.map[name].items) = 1
  /\ rules.map[name].items[1].required
  /\ rules.map[name].items[1].validator = "none"

\* C7: for a field whose only rule is a required rule, validateField fails exactly when
\* the value it read is undefined, null or '', and then stores the rule's message or the
\* default required message; every other value passes.
C7_RequiredFailsExactlyOnAbsent ==
  (last.op = "validateField returns" /\ RequiredOnly(last.name)) =>
    /\ last.ret = "false" <=> last.value \in {Undefined, Null, EmptyStr}
    /\ last.ret = "true" <=> last.value \in {Zero, False, Ab}
    /\ last.ret = "false" =>
         /\ last.name \in Keys(errors)
         /\ errors[last.name] = Message(rules.map[last.name].items[1], DefaultRequiredMsg)

\* the required-only field holding 0 has passed
C7_Witness ==
  /\ last.op = "validateField returns" /\ RequiredOnly(last.name)
  /\ last.value = Zero /\ last.ret = "true"

\* the validateField calls a validate or submit call is waiting for
Children(c) == {vf \in BagToSet(vfs) : vf.owner = c}

\* C8: validate starts validateField for every name in rules and for no other name,
\* resolves only when every one of them has returned, and resolves to true exactly when
\* all of them returned true; without rules it resolves to true.
C8_ValidateJoinsAll ==
  /\ \A vf \in BagToSet(vfs) : Ruled(vf.name)
  /\ last.op \in {"validate", "submit"} /\ rules.given =>
       /\ {vf.name : vf \in Children(last.call)} = Keys(rules.map)
       /\ \A vf \in Children(last.call) : CopiesIn(vf, vfs) = 1
  /\ last.op = "validate returns" /\ rules.given =>
       /\ Keys(last.results) = Keys(rules.map)
       /\ Children(last.call) = {}
       /\ last.ret = "true" <=> \A n \in Keys(rules.map) : last.results[n] = "true"
       /\ last.ret = "false" <=> \E n \in Keys(rules.map) : last.results[n] = "false"
  /\ last.op = "validate returns" /\ ~rules.given => last.ret = "true"

\* validate over two fields has resolved to false with one field passing
C8_Witness ==
  /\ last.op = "validate returns" /\ last.ret = "false"
  /\ Keys(last.results) = {"a", "b"}
  /\ last.results["b"] = "true"

\* C9: one validateField call evaluates the rules of the field one at a time in array
\* order; once a rule fails no later rule is evaluated and no later validator is called,
\* and the stored error is the message of that first failing rule.
C9_FirstFailingRuleWins ==
  /\ \A vf \in BagToSet(vfs) :
       /\ Len(vf.seen) = vf.idx - 1
       /\ \A j \in 1..Len(vf.seen) : vf.seen[j] = True
       /\ \A i \in 1..Len(vf.invoked) : vf.invoked[i] <= vf.idx
  /\ (last.op = "validateField returns" /\ Ruled(last.name)) =>
       /\ Len(last.seen) = last.idx
       /\ \A j \in 1..(last.idx - 1) : last.seen[j] = True
       /\ \A i \in 1..Len(last.invoked) : last.invoked[i] <= last.idx
       /\ last.ret = "false" =>
            /\ last.seen[last.idx] # True
            /\ last.name \in Keys(errors)
            /\ errors[last.name] = last.seen[last.idx]
       /\ last.ret = "true" => last.idx = Len(rules.map[last.name].items)
       /\ (rules.map[last.name].items[1].required /\ last.value \in {Undefined, Null, EmptyStr}) =>
            /\ last.ret = "false" /\ last.idx = 1 /\ last.invoked = <<>>
            /\ errors[last.name] = Message(rules.map[last.name].items[1], DefaultRequiredMsg)

\* the second of two rules has failed after the first one passed
C9_Witness ==
  /\ last.op = "validateField returns" /\ last.ret = "false"
  /\ last.idx = 2 /\ last.invoked = <<2>>
  /\ errors[last.name] = "a is invalid"

\* C10 as claimed: for every field name, a validateField that returns true leaves no
\* entry for the name in errors, and one that returns false leaves its failure message.
C10_ErrorMatchesResult_AnyName ==
  last.op = "validateField returns" =>
    /\ last.ret = "true" => last.name \notin Keys(errors)
    /\ last.ret = "false" => last.name \in Keys(errors) /\ errors[last.name] = last.seen[last.idx]

\* C10, amended: for every field name that has an entry in rules, a validateField that
\* returns true leaves no entry for the name in errors, and one that returns false
\* leaves the failure message of that call in errors[name].
C10_ErrorMatchesResult ==
  (last.op = "validateField returns" /\ Ruled(last.name)) =>
    /\ last.ret \in {"true", "false"}
    /\ last.ret = "true" => last.name \notin Keys(errors)
    /\ last.ret = "false" => last.name \in Keys(errors) /\ errors[last.name] = last.seen[last.idx]

\* a validation has passed and removed the entry of a field after valid was read as false
C10_Witness ==
  /\ last.op = "validateField returns" /\ last.ret = "true" /\ Ruled(last.name)
  /\ last.name \notin Keys(errors)
  /\ nOps = 2 /\ validDirty /\ ~validCache

\* C11: setFieldValue(name, v) sets values[name] = v and dirty[name] = true in the same
\* step; it calls validateField(name) exactly when touched[name] was true at the call, and
\* returns with that validation still pending; on a field that is not touched it
\* leaves errors unchanged and starts nothing, so no validator is called.
C11_SetFieldValueValidatesIffTouched ==
  [][(nOps' = nOps + 1 /\ last'.op = "setFieldValue") =>
       LET name == last'.name
           wasTouched == name \in Keys(touched) /\ touched[name]
           started == vfs' (-) vfs
       IN /\ name \in Keys(values') /\ values'[name] = last'.value
          /\ name \in Keys(dirty') /\ dirty'[name]
          /\ last'.ret \in {"true", "pending"} <=> wasTouched
          /\ errors' = errors
          /\ vfs \sqsubseteq vfs'
          /\ IF wasTouched /\ Ruled(name)
               THEN /\ BagCardinality(started) = 1
                    /\ \A vf \in BagToSet(started) :
                         /\ vf.name = name /\ vf.value = last'.value
                         /\ vf.owner = 0 /\ vf.idx = 1
                    /\ last'.ret = "pending"
               ELSE started = EmptyBag]_vars

\* setFieldValue on a touched field with rules has returned, its validation pending
C11_Witness ==
  /\ last.op = "setFieldValue" /\ last.ret = "pending"
  /\ last.name \in Keys(touched)
  /\ \E vf \in BagToSet(vfs) : vf.name = last.name /\ vf.value = last.value /\ vf.owner = 0
  /\ last.name \notin Keys(errors)

\* C12: a submit call calls onSubmit at most once, only after its validate has
\* resolved to true, and with the values of the form as they are then; when validate
\* resolves to false onSubmit is not called and submit resolves without an error.
C12_OnSubmitOnceAfterValid ==
  /\ \A c \in Keys(calls) :
       /\ calls[c].fnCalls \in {0, 1}
       /\ calls[c].fnCalls = 1 <=> (calls[c].kind = "submit" /\ calls[c].pc = "onSubmit")
       /\ calls[c].fnCalls = 1 => calls[c].isValid = "true"
  /\ last.op = "onSubmit" =>
       /\ last.ret = "true" /\ last.fnCalls = 1
       /\ last.arg = values
  /\ last.op = "submit returns" =>
       /\ last.fnCalls = IF last.ret = "true" THEN 1 ELSE 0
       /\ last.thrown = "not invoked" <=> last.ret # "true"
       /\ last.ret = "false" => last.outcome = "resolved"

\* onSubmit has been called with values that are not the initial ones
C12_Witness ==
  /\ last.op = "onSubmit" /\ last.fnCalls = 1
  /\ last.arg = values /\ values # initialValues
  /\ rules.given

\* C14: the status of a field binding is "error" whenever the field has an entry in
\* errors, "success" when it is touched and has no entry, "validating" otherwise.
C14_StatusFromState ==
  \A name \in Names :
    status(name) = IF name \in Keys(errors) THEN "error"
                   ELSE IF name \in Keys(touched) /\ touched[name] THEN "success"
                   ELSE "validating"

\* C15 as stated: a name is a key of errors only if the validateField for it that
\* completed last returned false, and is not a key only if it was never validated or
\* that validateField returned true.
C15_ErrorsReflectLatestValidation ==
  \A name \in Names :
    /\ name \in Keys(errors) => hist.res[name] = "false"
    /\ name \notin Keys(errors) => hist.res[name] \in {"none", "true"}

\* C15: for a name with rules whose errors entry has not been written by setFieldError,
\* clearFieldError or reset since its last completed validateField (or since
\* construction), the name is a key of errors exactly when that validateField returned
\* false.
C15_ErrorsReflectLatestValidation_Undisturbed ==
  \A name \in Names :
    (Ruled(name) /\ ~hist.direct[name]) =>
      (name \in Keys(errors) <=> hist.res[name] = "false")

\* a failed validation has left its error, and a later one of another field has passed
C15_Witness ==
  \E name \in Names :
    /\ Ruled(name) /\ ~hist.direct[name]
    /\ hist.res[name] = "false" /\ name \in Keys(errors)
    /\ last.op = "validateField returns" /\ last.ret = "true" /\ last.name # name

\* the submit calls that have started and not finished
SubmitsInFlight == {c \in Keys(calls) : calls[c].kind = "submit"}

\* C16: submitting is true only while a submit call is in flight; it is false right
\* after construction and whenever no submit call is in flight.
C16_SubmittingOnlyDuringSubmit ==
  /\ submitting => SubmitsInFlight # {}
  /\ SubmitsInFlight = {} => ~submitting
  /\ nOps = 0 => ~submitting

\* a submit is validating, after another call on the form
C16_Witness ==
  /\ submitting /\ nOps = 2
  /\ Cardinality(SubmitsInFlight) = 1
  /\ \A c \in SubmitsInFlight : calls[c].pc = "all"

\* C17: reset cancels nothing: it leaves every pending validateField and every validate
\* and submit call in flight, and a validation that fails after reset, with no call
\* made since, sets errors[name] and makes valid false.
C17_ResetDoesNotCancel ==
  [][/\ (nOps' = nOps + 1 /\ last'.op = "reset") => (vfs' = vfs /\ calls' = calls)
     /\ (hist'.afterReset /\ last'.op = "validateField returns" /\ last'.ret = "false") =>
          /\ BagIn([name |-> last'.name, value |-> last'.value, owner |-> last'.call,
                    idx |-> last'.idx, seen |-> SubSeq(last'.seen, 1, Len(last'.seen) - 1),
                    invoked |-> last'.invoked], vfs)
          /\ last'.name \in Keys(errors')
          /\ ~valid']_vars

\* validateField(name) was called, then reset, then the validator failed
C17_Witness ==
  /\ hist.afterReset /\ nOps = 2
  /\ last.op = "validateField returns" /\ last.ret = "false" /\ last.call = 0
  /\ last.vout \in {"false", "string", "throw", "reject"}
  /\ Keys(errors) = {last.name} /\ ~valid
  /\ values = initialValues /\ touched = Empty /\ dirty = Empty

\* C18: every submit call, whether or not another submit is in flight, sets submitting
\* and starts its own validation at once: one validateField of its own per key of rules,
\* or, without rules, a validate that has resolved to true, after which onSubmit is
\* called (C12); the calls already in flight are left as they are.
C18_SubmitNotGuarded ==
  [][(nOps' = nOps + 1 /\ last'.op = "submit") =>
       LET c == last'.call IN
       /\ c \notin Keys(calls) /\ c \in Keys(calls')
       /\ calls'[c].kind = "submit" /\ calls'[c].fnCalls = 0
       /\ submitting'
       /\ \A d \in Keys(calls) : d \in Keys(calls') /\ calls'[d] = calls[d]
       /\ vfs \sqsubseteq vfs'
       /\ IF rules.given
            THEN /\ calls'[c].pc = "all"
                 /\ \A name \in Keys(rules.map) :
                      \E vf \in BagToSet(vfs' (-) vfs) : vf.name = name /\ vf.owner = c
            ELSE /\ calls'[c].pc = "validated" /\ calls'[c].isValid = "true"
                 /\ vfs' = vfs]_vars

\* two onSubmit invocations are in progress, each after a validation of its own
C18_Witness ==
  /\ rules.given
  /\ Cardinality(SubmitsInFlight) = 2
  /\ \A c \in SubmitsInFlight : calls[c].pc = "onSubmit" /\ calls[c].fnCalls = 1
  /\ last.op = "onSubmit"

C20_SubmittingIsNotACount ==
  [][/\ last'.op = "submit returns" =>
          (~submitting' /\ SubmitsInFlight' = SubmitsInFlight \ {last'.call})
     /\ (nOps' = nOps + 1 /\ last'.op = "reset") =>
          (~submitting' /\ SubmitsInFlight' = SubmitsInFlight)]_vars

\* of two overlapping submits one has ended; the other still awaits its onSubmit
C20_Witness ==
  /\ ~submitting
  /\ last.op = "submit returns"
  /\ \E c \in SubmitsInFlight : calls[c].pc = "onSubmit" /\ c # last.call

\* C21: when a submit resumes after its validate(), it calls onSubmit exactly when
\* validate() returned true, whatever errors and valid are; and no step of a validate or
\* submit call writes the errors entry of a field without rules, so an error put there by
\* setFieldError stays while onSubmit is called.
C21_SubmitConsultsValidateOnly ==
  [][/\ \A c \in Keys(calls) :
          (calls[c].kind = "submit" /\ calls[c].pc = "validated"
           /\ last'.call = c /\ last'.op \in {"onSubmit", "submit returns"}) =>
            ((last'.op = "onSubmit" \/ last'.thrown \in SubmitErrors)
               <=> calls[c].isValid = "true")
     /\ (nOps' = nOps \/ last'.op \in {"submit", "validate", "validate returns"}) =>
          \A name \in Names :
            ~Ruled(name) => /\ name \in Keys(errors) <=> name \in Keys(errors')
                            /\ name \in Keys(errors) => errors'[name] = errors[name]]_vars

\* onSubmit has been called after a validation of the fields with rules, while a field
\* without rules holds the error setFieldError gave it
C21_Witness ==
  /\ last.op = "onSubmit" /\ last.ret = "true"
  /\ rules.given
  /\ ~valid /\ errors # Empty
  /\ \A name \in Keys(errors) : ~Ruled(name) /\ hist.direct[name] /\ errors[name] = "server error"

Next ==
  \/ \E name \in Names : validateField(name)
  \/ \E vf \in BagToSet(vfs) : \E vout \in CustomOutcomes \cup {"not invoked"} :
       validateFieldResume(vf, vout)
  \/ validate
  \/ \E c \in 1..MaxCalls : validateJoin(c)
  \/ \E name \in Names : \E value \in Vals : setFieldValue(name, value)
  \/ \E name \in Names : \E error \in ErrorArgs : setFieldError(name, error)
  \/ \E name \in Names : clearFieldError(name)
  \/ \E name \in Names : touchField(name)
  \/ \E name \in Names : onBlur(name)
  \/ reset
  \/ submit
  \/ \E c \in 1..MaxCalls : \E fn \in SubmitErrors \cup {"pending", "not invoked"} :
       submitResume(c, fn)
  \/ \E c \in 1..MaxCalls : \E fn \in SubmitErrors \cup {"ok"} : submitSettle(c, fn)
  \/ watchFlush
  \/ readValid

Spec == Init /\ [][Next]_vars

\* C13: every rule made by a factory other than required passes undefined, null and the
\* empty string.
C13_BuiltinsPassAbsent ==
  (last.op = "validator" /\ values["a"] \in AbsentValues) => last.ret = True

NextValidators == callValidator

SpecValidators == InitValidators /\ [][NextValidators]_vars

\* C22: the isDark of the provided context is a boolean taken at setup: setTheme and
\* toggleColorScheme (and rendering) leave it as it is, toggleColorScheme sets
\* theme.colorScheme to 'light' or 'dark', and the context's isDark changes only in
\* handleChange, which is registered only when the colorScheme prop is 'auto'.
C22_ContextIsDarkCaptured ==
  [][/\ last'.op \in {"setTheme", "toggleColorScheme", "render"} =>
          themeContext' = themeContext
     /\ (last'.op = "toggleColorScheme" /\ last'.thrown = "") =>
          /\ themeState'["colorScheme"] \in {"light", "dark"}
          /\ themeState'["colorScheme"] # themeState["colorScheme"]
     /\ themeContext' # themeContext =>
          (last'.op = "change" /\ props.colorScheme = "auto" /\ window.listening)
     /\ props' = props /\ window'.listening = window.listening
     /\ window.listening <=> (props.colorScheme = "auto" /\ window.defined)]_vars

\* toggleColorScheme has made a light theme dark; the context still says isDark = false
C22_Witness ==
  /\ last.op = "toggleColorScheme" /\ last.thrown = ""
  /\ props.colorScheme = "light"
  /\ themeState["colorScheme"] = "dark"
  /\ ~themeContext.isDark

NextTheme ==
  \/ \E newTheme \in PartialThemes : setTheme(newTheme)
  \/ toggleColorScheme
  \/ mediaChange
  \/ render

SpecTheme == InitTheme /\ [][NextTheme]_vars
====
